---------------------------- MODULE Spec2Model ----------------------------
(***************************************************************************)
(* A model of the FT-DMRG driver (ftdmrg.py: class FTDMRG and the calls    *)
(* its methods make on the process-wide memory pool and the scratch        *)
(* directory) and of the PEP 517 backend switcher (backendswitcher.py).    *)
(*                                                                         *)
(* Numbers are integers: a matrix entry and the tolerance tol are counted  *)
(* in one common unit, so that |a - b| < tol is exact.                     *)
(***************************************************************************)
EXTENDS Integers, Sequences, FiniteSets, TLC

(***************************************************************************)
(* Bounds of the model.                                                    *)
(***************************************************************************)
MaxObjects == 2        \* FTDMRG objects the process constructs
MaxSites == 2          \* n_sites of the integrals handed to init_hamiltonian
MaxSteps == 3          \* macro-steps one persisted state may have gone through
MaxN == 3              \* dimension of the 1-RDM in the reorder step
MaxCoef == 2           \* coefficients a, b of the 1-RDM entries a*(n*i+j) + b*j

Objs == 1..MaxObjects
PointGroups == {"d2h", "c1", "c2v"}
Tols == {1, 2}
Deltas == {-1, 0, 1}
Memories == {25}
Mus == {1}
BetaSteps == {1}
BondDims == {1, 2}
SubSweeps == {2}
Tags == {"INIT", "FINAL"}
Files == {"FCIDUMP", "garbage"}

VARIABLES
  SpinLabel,     \* module-level: "SU2", or "SZ" when line 22 is the one in
                 \* effect (the pair form of h1e needs it, line 91)
  proc,          \* "running" or "terminated" (the process was killed)
  pool,          \* the process-wide memory pool of init_memory / release_memory
  used,          \* what the objects hold of the pool: <<object, field>>
  obj,           \* per FTDMRG object: "unborn", "live", "deleted", "lost"
  fcidump,       \* self.fcidump
  hamil,         \* self.hamil
  bond_dim,      \* self.bond_dim (0: the attribute is not set)
  disk,          \* the scratch directory: what is persisted under each tag
  te,            \* the imaginary_time_evolution call in progress, if any
  steplog,       \* per-step parameters of the latest evolution call
  last,          \* the latest call: operation, object, arguments, outcome
  hist,          \* history: what has happened so far (for the properties);
                 \* evolved counts the completed evolution calls, up to 2
  drv,           \* the driver script of the continuation comparison
  dm, ridx, rphase, dm0,      \* the reorder step of get_one_pdm
  environ, cached, hookret    \* backendswitcher.py

ftvars == <<SpinLabel, proc, pool, used, obj, fcidump, hamil, bond_dim, disk,
            te, steplog, last, hist>>
rvars == <<dm, ridx, rphase, dm0>>
bvars == <<environ, cached, hookret>>
vars == <<ftvars, drv, rvars, bvars>>

Abs(x) == IF x < 0 THEN -x ELSE x
Min(a, b) == IF a < b THEN a ELSE b

(***************************************************************************)
(* Values of the object's fields.                                          *)
(***************************************************************************)
NoFcidump == [state |-> "None", n_sites |-> 0, form |-> "none"]
EmptyFcidump == [state |-> "empty", n_sites |-> 0, form |-> "none"]
NoHamil == [state |-> "None", n_sites |-> 0, mu |-> 0, mode |-> "none"]
NoState == [n |-> 0, steps |-> <<>>]
NoBlob == [info |-> FALSE, tensors |-> FALSE, data |-> FALSE, mps |-> NoState]
Idle == [on |-> FALSE]
NoDrv == [pc |-> "off"]

(***************************************************************************)
(* The one-electron integrals handed in: single matrices that are the      *)
(* constant matrix 1 changed at one entry by a delta, and pairs in which   *)
(* the first, the second or both are such a matrix.                        *)
(***************************************************************************)
Base(n) == [i \in 0..(n - 1) |-> [j \in 0..(n - 1) |-> 1]]

Perturbed(n, p, q, d) ==
  [i \in 0..(n - 1) |-> [j \in 0..(n - 1) |->
     1 + (IF i = p /\ j = q THEN d ELSE 0)]]

Matrices(n) ==
  {Perturbed(n, p, q, d) : p \in 0..(n - 1), q \in 0..(n - 1), d \in Deltas}

\* those changed off the diagonal, or not at all
OffDiagonal(n) ==
  {Perturbed(n, p, q, d) : p \in 0..(n - 1), q \in 0..(n - 1), d \in Deltas}
    \ {Perturbed(n, p, p, d) : p \in 0..(n - 1), d \in Deltas \ {0}}

\* h1e, and the number of parts of g2e that comes with it (0: an array)
Integrals(h1e, g2e_len) ==
  [tuple |-> Len(h1e) = 2, ms |-> h1e, g2e_len |-> g2e_len]

H1eInputs(n) ==
  {Integrals(<<m>>, 0) : m \in Matrices(n)}
    \cup {Integrals(<<m, Base(n)>>, 3) : m \in OffDiagonal(n)}
    \cup {Integrals(<<Base(n), m>>, 3) : m \in OffDiagonal(n)}
    \cup {Integrals(<<m, m>>, 2) : m \in OffDiagonal(n)}

(***************************************************************************)
(* init_hamiltonian: the checks and the packing, in the code's order.      *)
(***************************************************************************)
\* the test of line 82 with the abs dropped
SymmetricWithinSigned(a, b, tol) == (a - b) < tol

\* abs(h1e[i, j] - h1e[j, i]) < tol
SymmetricWithin(a, b, tol) == Abs(a - b) < tol

\* some assert of the double loop over i, j <= i fails
SymmetryAssertFails(m, n, tol) ==
  \E i \in 0..(n - 1) : \E j \in 0..i : ~SymmetricWithin(m[i][j], m[j][i], tol)

\* pg in ["d2h", "c1"]
PgAccepted(pg) == pg \in {"d2h", "c1"}

\* the first assert of both initializers dropped
FirstCheckAlways(fc) == TRUE

\* assert self.fcidump is None
FirstCheck(fc) == fc.state = "None"

BuiltHamil(n) == [state |-> "built", n_sites |-> n, mu |-> 0, mode |-> "Simple"]

\* The outcome of init_hamiltonian on an object whose fields are fc and hm:
\* the statement that raised ("ok": none) and the fields afterwards. The
\* integral store is kept by its size and form, not by its values.
InitHamiltonianOutcome(fc, hm, spin, pg, n, h1e, tol) ==
  IF ~FirstCheck(fc) THEN [err |-> "assert:74", fcidump |-> fc, hamil |-> hm]
  ELSE IF ~h1e.tuple THEN
    IF SymmetryAssertFails(h1e.ms[1], n, tol)
    THEN [err |-> "assert:82", fcidump |-> EmptyFcidump, hamil |-> hm]
    ELSE LET f == [state |-> "filled", n_sites |-> n, form |-> "su2"]
         IN  [err |-> IF PgAccepted(pg) THEN "ok" ELSE "assert:121",
              fcidump |-> f, hamil |-> BuiltHamil(n)]
  ELSE IF spin # "SZ"
    THEN [err |-> "assert:91", fcidump |-> EmptyFcidump, hamil |-> hm]
  ELSE IF h1e.g2e_len # 3
    THEN [err |-> "assert:93", fcidump |-> EmptyFcidump, hamil |-> hm]
  ELSE IF \E x \in 1..2 : SymmetryAssertFails(h1e.ms[x], n, tol)
    THEN [err |-> "assert:101", fcidump |-> EmptyFcidump, hamil |-> hm]
  ELSE LET f == [state |-> "filled", n_sites |-> n, form |-> "sz"]
       IN  [err |-> IF PgAccepted(pg) THEN "ok" ELSE "assert:121",
            fcidump |-> f, hamil |-> BuiltHamil(n)]

\* The outcome of init_hamiltonian_fcidump; the file "FCIDUMP" holds the
\* integrals of a MaxSites-orbital system, any other file does not parse.
InitHamiltonianFcidumpOutcome(fc, hm, pg, filename) ==
  IF ~FirstCheck(fc) THEN [err |-> "assert:55", fcidump |-> fc, hamil |-> hm]
  ELSE IF filename # "FCIDUMP"
    THEN [err |-> "read:57", fcidump |-> EmptyFcidump, hamil |-> hm]
  ELSE [err |-> IF PgAccepted(pg) THEN "ok" ELSE "assert:71",
        fcidump |-> [state |-> "filled", n_sites |-> MaxSites, form |-> "file"],
        hamil |-> BuiltHamil(MaxSites)]


(***************************************************************************)
(* The persisted states and the evolution's per-step parameters.           *)
(***************************************************************************)
\* every call loads the thermal-limit state
LoadTagInit(cont) == "INIT"

\* mps_info.tag = "INIT" if not cont else "FINAL"
LoadTag(cont) == IF ~cont THEN "INIT" ELSE "FINAL"

\* the tag the state is saved under before the evolution, the load tag kept
SaveTagKept(cont) == LoadTag(cont)

\* if not cont: mps_info.tag = "FINAL" (with cont the tag is "FINAL" already)
SaveTag(cont) == "FINAL"

\* The bond-dimension budget of macro-step k (1..n_steps) of one solve call:
\* the schedule's k-th entry, its last entry once the schedule is used up.
Budget(bond_dims, k) == bond_dims[Min(k, Len(bond_dims))]

Call(op, o, err, arg) == [op |-> op, o |-> o, err |-> err, arg |-> arg]

CanCall(o) == proc = "running" /\ ~te.on /\ obj[o] = "live"

(***************************************************************************)
(* FTDMRG.__init__                                                         *)
(***************************************************************************)
Construct(o, su2, memory) ==
  /\ proc = "running" /\ ~te.on
  /\ obj[o] = "unborn"
  /\ \A p \in Objs : p < o => obj[p] # "unborn"
  /\ IF ~su2
     THEN /\ last' = Call("__init__", o, "assert:45", [memory |-> memory])
          /\ UNCHANGED <<pool, obj, fcidump, hamil, bond_dim, hist>>
     ELSE /\ pool' = [state |-> "live", isize |-> memory \div 10,
                      dsize |-> (memory * 9) \div 10]
          /\ obj' = [obj EXCEPT ![o] = "live"]
          /\ fcidump' = [fcidump EXCEPT ![o] = NoFcidump]
          /\ hamil' = [hamil EXCEPT ![o] = NoHamil]
          /\ bond_dim' = [bond_dim EXCEPT ![o] = 0]
          /\ hist' = [hist EXCEPT !.init_memory = @ + 1]
          /\ last' = Call("__init__", o, "ok", [memory |-> memory])
  /\ UNCHANGED <<SpinLabel, proc, used, disk, te, steplog>>

(***************************************************************************)
(* FTDMRG.init_hamiltonian and FTDMRG.init_hamiltonian_fcidump             *)
(***************************************************************************)
Initialized(o, r, op, arg) ==
  /\ fcidump' = [fcidump EXCEPT ![o] = r.fcidump]
  /\ hamil' = [hamil EXCEPT ![o] = r.hamil]
  /\ used' = used
       \cup (IF r.fcidump.state = "filled" THEN {<<o, "fcidump">>} ELSE {})
       \cup (IF r.hamil.state = "built" THEN {<<o, "hamil">>} ELSE {})
  /\ hist' = [hist EXCEPT
       !.passed[o] = @ \/ r.err \notin {"assert:55", "assert:74"},
       !.inited[o] = @ \/ r.err = "ok"]
  /\ last' = Call(op, o, r.err, arg)
  /\ UNCHANGED <<SpinLabel, proc, pool, obj, bond_dim, disk, te, steplog>>

init_hamiltonian(o, pg, n, h1e, tol) ==
  /\ CanCall(o)
  /\ Initialized(o,
       InitHamiltonianOutcome(fcidump[o], hamil[o], SpinLabel, pg, n, h1e, tol),
       "init_hamiltonian", [pg |-> pg, n |-> n, h1e |-> h1e, tol |-> tol])

init_hamiltonian_fcidump(o, pg, filename) ==
  /\ CanCall(o)
  /\ Initialized(o,
       InitHamiltonianFcidumpOutcome(fcidump[o], hamil[o], pg, filename),
       "init_hamiltonian_fcidump", [pg |-> pg, filename |-> filename])

(***************************************************************************)
(* FTDMRG.generate_initial_mps (its bond_dim argument is not used)         *)
(***************************************************************************)
generate_initial_mps(o) ==
  /\ CanCall(o)
  /\ IF hamil[o].state = "None"
     THEN /\ last' = Call("generate_initial_mps", o, "assert:127", <<>>)
          /\ UNCHANGED <<disk, hist>>
     ELSE /\ disk' = [disk EXCEPT !["INIT"] =
                [info |-> TRUE, tensors |-> TRUE, data |-> TRUE,
                 mps |-> [n |-> hamil[o].n_sites, steps |-> <<>>]]]
          /\ hist' = [hist EXCEPT !.generated = TRUE]
          /\ last' = Call("generate_initial_mps", o, "ok", <<>>)
  /\ UNCHANGED <<SpinLabel, proc, pool, used, obj, fcidump, hamil, bond_dim,
                 te, steplog>>

(***************************************************************************)
(* FTDMRG.imaginary_time_evolution, in three parts: up to the call of      *)
(* te.solve, one macro-step of te.solve, and what follows te.solve.        *)
(***************************************************************************)
EvolveArgs(n_steps, beta_step, mu, bond_dims, n_sub_sweeps, cont) ==
  [n_steps |-> n_steps, beta_step |-> beta_step, mu |-> mu,
   bond_dims |-> bond_dims, n_sub_sweeps |-> n_sub_sweeps, cont |-> cont]

EvolveFails(o, err, a) ==
  /\ last' = Call("imaginary_time_evolution", o, err, a)
  /\ UNCHANGED <<disk, te, steplog>>

EvolveBegin(o, a) ==
  /\ CanCall(o)
  /\ Len(disk[LoadTag(a.cont)].mps.steps) + a.n_steps <= MaxSteps
  /\ IF hamil[o].state = "None"
     THEN /\ EvolveFails(o, "attr:168", a)
          /\ UNCHANGED hamil
     ELSE /\ hamil' = [hamil EXCEPT ![o].mu = a.mu]
          /\ LET tag == LoadTag(a.cont) IN
             IF ~disk[tag].info
               THEN EvolveFails(o, "load:175", a)
             ELSE IF ~disk[tag].data
               THEN EvolveFails(o, "load:179", a)
             ELSE IF ~disk[tag].tensors
               THEN EvolveFails(o, "load:180", a)
             ELSE /\ disk' = IF a.cont THEN disk
                             ELSE [disk EXCEPT ![SaveTag(a.cont)] =
                                    [@ EXCEPT !.info = TRUE, !.tensors = TRUE,
                                              !.mps = disk[tag].mps]]
                  /\ te' = [on |-> TRUE, o |-> o, k |-> 0, arg |-> a,
                            tag |-> SaveTag(a.cont), mps |-> disk[tag].mps]
                  /\ steplog' = <<>>
                  /\ last' = Call("imaginary_time_evolution", o, "running", a)
  /\ UNCHANGED <<SpinLabel, proc, pool, used, obj, fcidump, bond_dim, hist>>

\* te.solve, macro-step k + 1: n_sub_sweeps sweeps at beta_step, truncated to
\* the schedule's budget; the loaded state is advanced and its tensors are
\* written back under the tag it carries.
EvolveStep ==
  /\ proc = "running" /\ te.on /\ te.k < te.arg.n_steps
  /\ LET k == te.k + 1
         bd == Budget(te.arg.bond_dims, k)
         mps == [te.mps EXCEPT !.steps =
                  Append(@, [beta_step |-> te.arg.beta_step, bond_dim |-> bd,
                             n_sub_sweeps |-> te.arg.n_sub_sweeps,
                             mu |-> hamil[te.o].mu])]
     IN  /\ disk' = [disk EXCEPT ![te.tag].mps = mps]
         /\ steplog' = Append(steplog,
                  [step |-> k, beta_step |-> te.arg.beta_step, bond_dim |-> bd])
         /\ te' = [te EXCEPT !.k = k, !.mps = mps]
  /\ UNCHANGED <<SpinLabel, proc, pool, used, obj, fcidump, hamil, bond_dim,
                 last, hist>>

EvolveEnd ==
  /\ proc = "running" /\ te.on /\ te.k = te.arg.n_steps
  /\ bond_dim' = [bond_dim EXCEPT
                    ![te.o] = te.arg.bond_dims[Len(te.arg.bond_dims)]]
  /\ disk' = [disk EXCEPT ![te.tag].data = TRUE]
  /\ te' = Idle
  /\ hist' = [hist EXCEPT !.evolved = Min(@ + 1, 2)]
  /\ last' = Call("imaginary_time_evolution", te.o, "ok", te.arg)
  /\ UNCHANGED <<SpinLabel, proc, pool, used, obj, fcidump, hamil, steplog>>

(***************************************************************************)
(* FTDMRG.get_one_pdm, up to the reorder step (modelled further below)     *)
(***************************************************************************)
get_one_pdm(o) ==
  /\ CanCall(o)
  /\ IF hamil[o].state = "None"
     THEN /\ last' = Call("get_one_pdm", o, "attr:221", <<>>)
          /\ UNCHANGED hamil
     ELSE /\ hamil' = [hamil EXCEPT ![o].mu = 0]
          /\ last' = Call("get_one_pdm", o,
                          IF ~disk["FINAL"].data THEN "load:231"
                          ELSE IF ~disk["FINAL"].tensors THEN "load:240"
                          ELSE IF bond_dim[o] = 0 THEN "attr:241"
                          ELSE "ok", <<>>)
  /\ UNCHANGED <<SpinLabel, proc, pool, used, obj, fcidump, bond_dim, disk, te,
                 steplog, hist>>

(***************************************************************************)
(* FTDMRG.__del__, and the process being killed from outside               *)
(***************************************************************************)
Del(o) ==
  /\ CanCall(o)
  /\ used' = used \ {<<o, "hamil">>, <<o, "fcidump">>}
  /\ pool' = [pool EXCEPT !.state = "released"]
  /\ obj' = [obj EXCEPT ![o] = "deleted"]
  /\ fcidump' = [fcidump EXCEPT ![o] = NoFcidump]
  /\ hamil' = [hamil EXCEPT ![o] = NoHamil]
  /\ bond_dim' = [bond_dim EXCEPT ![o] = 0]
  /\ hist' = [hist EXCEPT !.release_memory = "__del__"]
  /\ last' = Call("__del__", o, "ok", <<>>)
  /\ UNCHANGED <<SpinLabel, proc, disk, te, steplog>>

Terminate ==
  /\ proc = "running"
  /\ proc' = "terminated"
  /\ pool' = [state |-> "none", isize |-> 0, dsize |-> 0]
  /\ used' = {}
  /\ obj' = [o \in Objs |-> IF obj[o] = "live" THEN "lost" ELSE obj[o]]
  /\ fcidump' = [o \in Objs |-> NoFcidump]
  /\ hamil' = [o \in Objs |-> NoHamil]
  /\ bond_dim' = [o \in Objs |-> 0]
  /\ te' = Idle
  /\ steplog' = <<>>
  /\ hist' = [hist EXCEPT !.killed_in_evolution = te.on]
  /\ last' = Call("terminate", 0, "killed", <<>>)
  /\ UNCHANGED <<SpinLabel, disk>>

(***************************************************************************)
(* The object's life: any calls, in any order.                             *)
(***************************************************************************)
FtInit ==
  /\ SpinLabel \in {"SU2", "SZ"}
  /\ proc = "running"
  /\ pool = [state |-> "none", isize |-> 0, dsize |-> 0]
  /\ used = {}
  /\ obj = [o \in Objs |-> "unborn"]
  /\ fcidump = [o \in Objs |-> NoFcidump]
  /\ hamil = [o \in Objs |-> NoHamil]
  /\ bond_dim = [o \in Objs |-> 0]
  /\ disk = [t \in Tags |-> NoBlob]
  /\ te = Idle
  /\ steplog = <<>>
  /\ last = Call("none", 0, "ok", <<>>)
  /\ hist = [passed |-> [o \in Objs |-> FALSE], inited |-> [o \in Objs |-> FALSE],
             generated |-> FALSE, evolved |-> 0, init_memory |-> 0,
             release_memory |-> "never", killed_in_evolution |-> FALSE]

ReorderOff == dm = <<>> /\ ridx = <<>> /\ rphase = "off" /\ dm0 = <<>>
BackendOff ==
  environ = <<>> /\ cached = [set |-> FALSE, value |-> ""] /\ hookret = [hook |-> "off"]

Init == FtInit /\ drv = NoDrv /\ ReorderOff /\ BackendOff

Others == UNCHANGED <<drv, rvars, bvars>>

SmallH1e ==
  [n \in 1..MaxSites |-> {Integrals(<<Perturbed(n, n - 1, 0, d)>>, 0) : d \in {0, 1}}]

AllH1e == [n \in 1..MaxSites |-> H1eInputs(n)]

\* Construction and the two initializers, on the objects of O: the point
\* group drawn from P, n_sites from N, the one-electron integrals from H[n],
\* the tolerance from T.
Setup(O, P, N, H, T) ==
  \/ \E o \in O, su2 \in BOOLEAN, m \in Memories : Construct(o, su2, m) /\ Others
  \/ \E o \in O, pg \in P, n \in N, tol \in T :
       \E h \in H[n] : init_hamiltonian(o, pg, n, h, tol) /\ Others
  \/ \E o \in O, pg \in P, f \in Files :
       init_hamiltonian_fcidump(o, pg, f) /\ Others

\* The phases that follow, and the end of an object and of the process:
\* n_steps drawn from NS, the bond-dimension schedule from S.
Phases(O, NS, S) ==
  \/ \E o \in O : generate_initial_mps(o) /\ Others
  \/ \E o \in O, n \in NS, b \in BetaSteps, mu \in Mus,
        bd \in S, s \in SubSweeps, c \in BOOLEAN :
       EvolveBegin(o, EvolveArgs(n, b, mu, bd, s, c)) /\ Others
  \/ EvolveStep /\ Others
  \/ EvolveEnd /\ Others
  \/ \E o \in O : get_one_pdm(o) /\ Others
  \/ \E o \in O : Del(o) /\ Others
  \/ Terminate /\ Others

\* One object, every phase.
Next ==
  \/ Setup({1}, PointGroups, {MaxSites}, SmallH1e, {1})
  \/ Phases({1}, 1..MaxSteps, {<<1>>, <<1, 2>>})

Spec == Init /\ [][Next]_vars

\* One object, construction and the initializers on every input.
NextInit == Setup({1}, {"d2h", "c2v"}, 1..MaxSites, AllH1e, Tols)

SpecInit == Init /\ [][NextInit]_vars

\* Several objects in one process.
NextPool ==
  \/ Setup(Objs, {"d2h"}, {MaxSites}, SmallH1e, {1})
  \/ Phases(Objs, {1}, {<<1>>})

SpecPool == Init /\ [][NextPool]_vars

(***************************************************************************)
(* The driver of the continuation comparison: the script of lines 384-392, *)
(* first with one evolution call of n1 + n2 steps, then with a call of n1  *)
(* steps and a continuation (cont=True) of n2 steps, the arguments the     *)
(* same. A cont=False call starts from the "INIT" state again, so the two  *)
(* runs follow one another in one process.                                 *)
(***************************************************************************)
DrvArgs(n, cont) ==
  EvolveArgs(n, drv.beta_step, drv.mu, drv.bond_dims, drv.n_sub_sweeps, cont)

DrvInit ==
  \E n1 \in 1..MaxSteps, n2 \in 1..MaxSteps :
    /\ n1 + n2 <= MaxSteps
    /\ \E bd \in [1..(n1 + n2) -> BondDims], b \in BetaSteps, mu \in Mus,
          s \in SubSweeps, pg \in {"d2h", "c1"} :
         drv = [pc |-> "construct", n1 |-> n1, n2 |-> n2, bond_dims |-> bd,
                beta_step |-> b, mu |-> mu, n_sub_sweeps |-> s, pg |-> pg,
                single |-> <<>>, final |-> NoBlob, first |-> <<>>,
                second |-> <<>>]

DrvGoto(pc) == drv' = [drv EXCEPT !.pc = pc]

DrvSetup ==
  \/ /\ drv.pc = "construct"
     /\ \E m \in Memories : Construct(1, TRUE, m)
     /\ DrvGoto("init")
  \/ /\ drv.pc = "init"
     /\ init_hamiltonian(1, drv.pg, MaxSites, Integrals(<<Base(MaxSites)>>, 0), 1)
     /\ DrvGoto("generate")
  \/ /\ drv.pc = "generate"
     /\ generate_initial_mps(1)
     /\ DrvGoto("single")

DrvBegin ==
  \/ /\ drv.pc = "single"
     /\ EvolveBegin(1, DrvArgs(drv.n1 + drv.n2, FALSE))
     /\ DrvGoto("single_run")
  \/ /\ drv.pc = "first"
     /\ EvolveBegin(1, DrvArgs(drv.n1, FALSE))
     /\ DrvGoto("first_run")
  \/ /\ drv.pc = "second"
     /\ EvolveBegin(1, DrvArgs(drv.n2, TRUE))
     /\ DrvGoto("second_run")

DrvStep ==
  /\ drv.pc \in {"single_run", "first_run", "second_run"}
  /\ EvolveStep
  /\ UNCHANGED drv

DrvEnd ==
  /\ EvolveEnd
  /\ \/ /\ drv.pc = "single_run"
        /\ drv' = [drv EXCEPT !.pc = "first", !.single = steplog,
                              !.final = disk'["FINAL"]]
     \/ /\ drv.pc = "first_run"
        /\ drv' = [drv EXCEPT !.pc = "second", !.first = steplog]
     \/ /\ drv.pc = "second_run"
        /\ drv' = [drv EXCEPT !.pc = "done", !.second = steplog]

NextCont ==
  \/ DrvSetup /\ UNCHANGED <<rvars, bvars>>
  \/ DrvBegin /\ UNCHANGED <<rvars, bvars>>
  \/ DrvStep /\ UNCHANGED <<rvars, bvars>>
  \/ DrvEnd /\ UNCHANGED <<rvars, bvars>>

InitCont == FtInit /\ DrvInit /\ ReorderOff /\ BackendOff

SpecCont == InitCont /\ [][NextCont]_vars

(***************************************************************************)
(* The reorder step of get_one_pdm (line 255), applied to a 1-RDM with a   *)
(* permutation and then with the permutation np.argsort gives for it (the  *)
(* ridx of line 336).                                                      *)
(***************************************************************************)
Idx(n) == 0..(n - 1)

PermutationsOf(n) == {f \in [Idx(n) -> Idx(n)] : \A k \in Idx(n) : \E i \in Idx(n) : f[i] = k}

\* np.argsort of a permutation: where each of 0..n-1 stands in it
ArgSort(p) == [k \in DOMAIN p |-> CHOOSE i \in DOMAIN p : p[i] = k]

\* m[r, :]
TakeRows(m, r) == [i \in DOMAIN r |-> m[r[i]]]

\* the column step leaving the columns where they are
TakeColsNone(m, r) == m

\* m[:, r]
TakeCols(m, r) == [i \in DOMAIN m |-> [j \in DOMAIN r |-> m[i][r[j]]]]

\* dm[:, :] = dm[ridx, :][:, ridx]
Reorder(m, r) == TakeCols(TakeRows(m, r), r)

DmInputs(n) ==
  {[i \in Idx(n) |-> [j \in Idx(n) |-> a * (n * i + j) + b * j]] :
     a \in 0..MaxCoef, b \in 0..MaxCoef}

ReorderInit ==
  \E n \in 1..MaxN :
    /\ dm0 \in DmInputs(n)
    /\ dm = dm0
    /\ ridx \in PermutationsOf(n)
    /\ rphase = "computed"

ReorderApply ==
  /\ rphase = "computed"
  /\ dm' = Reorder(dm, ridx)
  /\ rphase' = "reordered"
  /\ UNCHANGED <<ridx, dm0>>

ReorderBack ==
  /\ rphase = "reordered"
  /\ dm' = Reorder(dm, ArgSort(ridx))
  /\ rphase' = "restored"
  /\ UNCHANGED <<ridx, dm0>>

NextReorder ==
  \/ ReorderApply /\ UNCHANGED <<ftvars, drv, bvars>>
  \/ ReorderBack /\ UNCHANGED <<ftvars, drv, bvars>>

InitReorder == FtInit /\ SpinLabel = "SU2" /\ drv = NoDrv /\ ReorderInit /\ BackendOff

SpecReorder == InitReorder /\ [][NextReorder]_vars

(***************************************************************************)
(* backendswitcher.py. A string is a sequence of characters.               *)
(***************************************************************************)
UpperCase == <<"A", "B", "C", "D", "E", "F", "G", "H", "I", "J", "K", "L", "M",
               "N", "O", "P", "Q", "R", "S", "T", "U", "V", "W", "X", "Y", "Z">>
LowerCase == <<"a", "b", "c", "d", "e", "f", "g", "h", "i", "j", "k", "l", "m",
               "n", "o", "p", "q", "r", "s", "t", "u", "v", "w", "x", "y", "z">>

\* str.lower
Lower(str) ==
  [k \in DOMAIN str |->
     IF \E u \in DOMAIN UpperCase : UpperCase[u] = str[k]
     THEN LowerCase[CHOOSE u \in DOMAIN UpperCase : UpperCase[u] = str[k]]
     ELSE str[k]]

\* str.replace(old, new) for single characters
Replace(str, old, new) == [k \in DOMAIN str |-> IF str[k] = old THEN new ELSE str[k]]

Str_skbuild == <<"s", "k", "b", "u", "i", "l", "d">>
Str_scikit_build_core ==
  <<"s", "c", "i", "k", "i", "t", "-", "b", "u", "i", "l", "d", "-", "c", "o", "r", "e">>

\* the values BLOCK2_BUILD_BACKEND takes; <<>> is also what an unset
\* variable reads as (os.environ.get(..., ""))
EnvValues ==
  { <<>>,
    Str_skbuild,
    <<"S", "K", "B", "U", "I", "L", "D">>,
    <<"S", "k", "B", "u", "i", "l", "d">>,
    <<"s", "k", "-", "b", "u", "i", "l", "d">>,
    <<"s", "k", "b", "u", "i", "l", "d", " ">>,
    Str_scikit_build_core,
    <<"s", "c", "i", "k", "i", "t", "_", "b", "u", "i", "l", "d", "_", "c", "o", "r", "e">>,
    <<"S", "c", "i", "k", "i", "t", "_", "B", "u", "i", "l", "d", "-", "C", "O", "R", "E">>,
    <<"s", "c", "i", "k", "i", "t", "b", "u", "i", "l", "d", "c", "o", "r", "e">>,
    <<"s", "c", "i", "k", "i", "t", "-", "b", "u", "i", "l", "d">>,
    <<"s", "e", "t", "u", "p", "t", "o", "o", "l", "s">> }

Hooks == {"build_wheel", "build_sdist", "get_requires_for_build_wheel",
          "get_requires_for_build_sdist", "prepare_metadata_for_build_wheel"}

\* the body of choose_build_backend
ChooseBody(value) ==
  LET name == Replace(Lower(value), "_", "-")
  IN  IF name \in {Str_skbuild, Str_scikit_build_core}
      THEN "scikit_build_core.build"
      ELSE "setuptools.build_meta"

\* the decorator dropped: every call runs the body
ChooseUncached(memo, value) == ChooseBody(value)

\* @cache: the first call's result is kept and returned by every later call
ChooseBuildBackend(memo, value) == IF memo.set THEN memo.value ELSE ChooseBody(value)

BackendInit ==
  /\ environ \in EnvValues
  /\ cached = [set |-> FALSE, value |-> ""]
  /\ hookret = [hook |-> "none", backend |-> "", first |-> <<>>]

\* the environment changes between two calls
SetEnv ==
  /\ \E v \in EnvValues : environ' = v
  /\ UNCHANGED <<cached, hookret>>

\* a build hook (or import_build_backend, or choose_build_backend itself)
CallHook(h) ==
  LET b == ChooseBuildBackend(cached, environ) IN
  /\ hookret' = [hook |-> h, backend |-> b,
                 first |-> IF cached.set THEN hookret.first ELSE environ]
  /\ cached' = [set |-> TRUE, value |-> IF cached.set THEN cached.value ELSE b]
  /\ UNCHANGED environ

NextBackend ==
  \/ SetEnv /\ UNCHANGED <<ftvars, drv, rvars>>
  \/ \E h \in Hooks \cup {"import_build_backend", "choose_build_backend"} :
       CallHook(h) /\ UNCHANGED <<ftvars, drv, rvars>>

InitBackend == FtInit /\ SpinLabel = "SU2" /\ drv = NoDrv /\ ReorderOff /\ BackendInit

SpecBackend == InitBackend /\ [][NextBackend]_vars

(***************************************************************************)
(* The properties.                                                         *)
(***************************************************************************)
InitOps == {"init_hamiltonian", "init_hamiltonian_fcidump"}
Evolution == "imaginary_time_evolution"
FinalOnDisk == disk["FINAL"].info \/ disk["FINAL"].tensors \/ disk["FINAL"].data

\* C1: a call of either initializer with a point group other than "d2h" and
\* "c1" fails, and it creates or fills no integral store and constructs or
\* assigns no Hamiltonian before it fails.
C1_RejectedBeforeConstruction ==
  [][(last'.op \in InitOps /\ last'.arg.pg \notin {"d2h", "c1"})
       => /\ last'.err # "ok"
          /\ fcidump' = fcidump
          /\ hamil' = hamil]_vars

\* Some index pair of m differs from its mirror by tol or more.
Asymmetric(m, n, tol) ==
  \E i \in 0..(n - 1), j \in 0..(n - 1) :
    m[i][j] - m[j][i] >= tol \/ m[j][i] - m[i][j] >= tol

SomeAsymmetric(a) == \E x \in 1..Len(a.h1e.ms) : Asymmetric(a.h1e.ms[x], a.n, a.tol)

SymmetryErrors == {"assert:82", "assert:101"}

\* C2 as stated: whenever a matrix of h1e is asymmetric by tol or more the
\* call raises the symmetry error and builds no Hamiltonian, and when every
\* pair is within tolerance it does not raise that error.
C2_SymmetryErrorIffAsymmetric ==
  [][last'.op = "init_hamiltonian"
       => IF SomeAsymmetric(last'.arg)
          THEN last'.err \in SymmetryErrors /\ hamil' = hamil
          ELSE last'.err \notin SymmetryErrors]_vars

\* The call gets as far as the symmetry test: the object has no integral
\* store yet and, with a pair h1e, SpinLabel is SZ and g2e has three parts.
ReachesSymmetryTest(o, a) ==
  /\ fcidump[o].state = "None"
  /\ a.h1e.tuple => (SpinLabel = "SZ" /\ a.h1e.g2e_len = 3)

\* C2 amended: an asymmetric h1e always makes the call raise and build no
\* Hamiltonian, and a symmetric one never raises the symmetry error; the
\* error raised for an asymmetric h1e is the symmetry error when the call
\* gets as far as the symmetry test.
C2_Amended ==
  [][last'.op = "init_hamiltonian"
       => IF SomeAsymmetric(last'.arg)
          THEN /\ last'.err # "ok"
               /\ hamil' = hamil
               /\ ReachesSymmetryTest(last'.o, last'.arg)
                    => last'.err \in SymmetryErrors
          ELSE last'.err \notin SymmetryErrors]_vars

C2_Witness ==
  /\ last.op = "init_hamiltonian"
  /\ last.err = "assert:101"
  /\ ~Asymmetric(last.arg.h1e.ms[1], last.arg.n, last.arg.tol)
  /\ hamil[1].state = "None"

\* C3: a state tagged "FINAL" is on disk only if an evolution call has run
\* to completion, at every point of an evolution and after the process is
\* killed.
C3_FinalOnlyAfterCompletion == FinalOnDisk => hist.evolved >= 1

\* C6: generate_initial_mps completes only after a successful Hamiltonian
\* initialization of the object; an evolution completes only after the state
\* it loads was persisted (by generate_initial_mps with cont=False, by an
\* earlier evolution with cont=True); get_one_pdm completes only after an
\* evolution has completed.
C6_PhasesInOrder ==
  /\ (last.op = "generate_initial_mps" /\ last.err = "ok") => hist.inited[last.o]
  /\ (last.op = Evolution /\ last.err = "ok")
       => IF last.arg.cont THEN hist.evolved >= 2 ELSE hist.generated
  /\ (last.op = "get_one_pdm" /\ last.err = "ok") => hist.evolved >= 1

\* C7: release_memory is called only from an object's teardown, after that
\* object's Hamiltonian and integral store are deallocated, and the pool is
\* never released while an object still holds memory of it.
C7_PoolReleasedOnlyWhenUnused ==
  /\ hist.release_memory \in {"never", "__del__"}
  /\ pool.state = "released" => used = {}

\* C8: an evolution call with cont=True loads the persisted "FINAL" state, one
\* with cont=False loads the "INIT" state, which is the thermal-limit state,
\* and saves it under "FINAL"; the result is written under "FINAL"; no part of
\* an evolution call changes what is persisted under "INIT".
C8_ContinuationSemantics ==
  [][/\ (last'.op = Evolution \/ te.on) /\ proc' = "running"
          => disk'["INIT"] = disk["INIT"]
     /\ (te'.on /\ ~te.on)
          => IF te'.arg.cont
             THEN te'.mps = disk["FINAL"].mps /\ disk' = disk
             ELSE /\ te'.mps = disk["INIT"].mps
                  /\ te'.mps.steps = <<>>
                  /\ disk'["FINAL"].mps = disk["INIT"].mps
     /\ (te.on /\ proc' = "running")
          => disk'["FINAL"].mps = (IF te'.on THEN te'.mps ELSE te.mps)
    ]_vars

C8_Witness ==
  /\ last.op = Evolution /\ last.err = "ok" /\ last.arg.cont
  /\ Len(disk["FINAL"].mps.steps) >= 2
  /\ disk["INIT"].tensors /\ disk["INIT"].mps.steps = <<>>

\* C9: once a call of either initializer has passed its first check on an
\* object, every further call of either initializer on that object is
\* rejected by the first check, and the object's integral store and
\* Hamiltonian stay the ones it has for as long as it lives.
C9_InitializedAtMostOnce ==
  [][\A o \in Objs : (hist.passed[o] /\ obj'[o] = "live")
       => /\ (last'.op \in InitOps /\ last'.o = o)
               => last'.err \in {"assert:55", "assert:74"}
          /\ fcidump'[o] = fcidump[o]
          /\ hamil'[o].state = hamil[o].state
          /\ hamil'[o].n_sites = hamil[o].n_sites]_vars

C9_Witness ==
  /\ last.op = "init_hamiltonian_fcidump" /\ last.err = "assert:55"
  /\ hist.passed[1]
  /\ fcidump[1].state = "empty"

\* The per-step parameters of a run, the steps counted through the run.
Params(log, from) ==
  [i \in 1..Len(log) |->
     [step |-> from + i, beta_step |-> log[i].beta_step, bond_dim |-> log[i].bond_dim]]

SameAsSingleRun ==
  /\ Params(drv.single, 0) = Params(drv.first, 0) \o Params(drv.second, drv.n1)
  /\ drv.final = disk["FINAL"]

\* C4 as stated: n1 + n2 steps in one call give the same per-step parameters
\* and the same persisted "FINAL" state as n1 steps followed by n2 steps with
\* cont=True, the arguments the same.
C4_ContinuationEquivalence == drv.pc = "done" => SameAsSingleRun

\* C4 amended: the two runs have the same beta steps throughout and the same
\* budgets in the first n1 steps; step n1 + i of the split run is truncated
\* to the schedule's entry i, so the runs have the same per-step parameters
\* and the same "FINAL" state exactly when entry i equals entry n1 + i for
\* every i in 1..n2 (as in a schedule whose entries are all equal).
C4_Amended ==
  drv.pc = "done" =>
    /\ Len(drv.single) = drv.n1 + drv.n2
    /\ Len(drv.first) = drv.n1 /\ Len(drv.second) = drv.n2
    /\ \A i \in 1..drv.n1 : drv.first[i].bond_dim = drv.single[i].bond_dim
    /\ \A i \in 1..drv.n2 : drv.second[i].beta_step = drv.single[drv.n1 + i].beta_step
    /\ SameAsSingleRun
         <=> \A i \in 1..drv.n2 : drv.bond_dims[i] = drv.bond_dims[drv.n1 + i]

C4_Witness ==
  /\ drv.pc = "done" /\ drv.n2 >= 2
  /\ SameAsSingleRun
  /\ Len(disk["FINAL"].mps.steps) = drv.n1 + drv.n2

\* C5: the reorder step takes entry (i, j) from (ridx[i], ridx[j]), the same
\* permutation on rows and columns, and applying it with ridx and then with
\* the inverse permutation gives back the matrix, entry for entry.
C5_ReorderRoundTrip ==
  /\ rphase = "reordered"
       => \A i \in DOMAIN dm0, j \in DOMAIN dm0 : dm[i][j] = dm0[ridx[i]][ridx[j]]
  /\ rphase = "restored" => dm = dm0

C5_Witness ==
  /\ rphase = "restored"
  /\ \E i \in DOMAIN ridx : ridx[ridx[i]] # i
  /\ dm0[0][1] # dm0[1][0]

\* The value reads as the name t when case is ignored and an underscore
\* counts as a hyphen.
ReadsAs(v, t) ==
  /\ Len(v) = Len(t)
  /\ \A k \in 1..Len(t) :
       \/ v[k] = t[k]
       \/ \E u \in DOMAIN UpperCase : LowerCase[u] = t[k] /\ UpperCase[u] = v[k]
       \/ t[k] = "-" /\ v[k] = "_"

\* C10: every hook returns the backend chosen from the environment value of
\* the first call: scikit_build_core.build exactly when that value reads as
\* "skbuild" or "scikit-build-core", setuptools.build_meta otherwise, also
\* after the environment variable has changed.
C10_BackendChosenOnce ==
  hookret.hook # "none" =>
    hookret.backend =
      IF ReadsAs(hookret.first, Str_skbuild)
           \/ ReadsAs(hookret.first, Str_scikit_build_core)
      THEN "scikit_build_core.build"
      ELSE "setuptools.build_meta"

C10_Witness ==
  /\ hookret.hook = "build_sdist"
  /\ hookret.backend = "scikit_build_core.build"
  /\ hookret.first # environ
  /\ Lower(environ) = environ /\ environ # Str_skbuild /\ environ # Str_scikit_build_core
  /\ \E k \in DOMAIN hookret.first : hookret.first[k] = "_"

=============================================================================
